---- MODULE Spec2Model ----
(***************************************************************************)
(* Model of psychic-pancake.py: the image checker, the Cloudflare          *)
(* uploader, the recursive file walker and the CSV report block of the     *)
(* `uploader` command.                                                     *)
(*                                                                         *)
(* Python values are modelled as follows.  A call's outcome is a record    *)
(* with a field exc ("none" when the call returned, the exception's class  *)
(* name when it raised).  None is the record PyNone, a decoded JSON object *)
(* is a record of type "dict" whose fields hold tagged scalars             *)
(* ("bool:True", "str:true", ...) or "absent" when the key is missing.     *)
(* A name used by a function body resolves when it is a local of that      *)
(* function or a name bound at module level; otherwise the use raises      *)
(* NameError, as the interpreter does.                                     *)
(*                                                                         *)
(* The option declarations of `uploader` (lines 176-193) are not modelled; *)
(* as written, lines 188-189 pass a positional argument after a keyword    *)
(* argument, which the compiler rejects.  The function bodies are          *)
(* modelled as they would run once the file compiles.                      *)
(***************************************************************************)
EXTENDS Naturals, Integers, Sequences, FiniteSets, TLC

VARIABLES pc, exc, tree, stack, file_log, verdict, visited, calls, posts,
          report, rows, arg, ret

vars == <<pc, exc, tree, stack, file_log, verdict, visited, calls, posts,
          report, rows, arg, ret>>

(***************************************************************************)
(* Bounds of the model.                                                    *)
(***************************************************************************)
MaxNodes == 4

MaxLog == 2

(***************************************************************************)
(* Python values.                                                          *)
(***************************************************************************)
PyNone == [type |-> "NoneType"]

NoPath == 0

Blank == ""

\* Names bound at module level: the imports and the module's own definitions.
ModuleGlobals ==
    {"Optional", "List", "Tuple", "Path", "DictWriter", "logging", "Image",
     "typer", "__author__", "__version__", "app", "logger", "image_checker",
     "upload_to_cloudflare", "file_walker", "uploader"}

\* Does the interpreter find `name` from a body whose locals are `locals`?
NameDefined(name, locals) == name \in (locals \cup ModuleGlobals)

\* dict.get(key): the value, or None for a missing key.
DictGet(d, key) == IF d[key] = "absent" THEN "None" ELSE d[key]

(***************************************************************************)
(* image_checker: defaults of the keyword parameters.                      *)
(***************************************************************************)
max_bytes_default == 10485760

max_dim_default == 12000

max_pixels_default == 100000000

image_types_default == {"PNG", "JPEG"}

DefaultLimits ==
    [max_bytes |-> max_bytes_default, max_dim |-> max_dim_default,
     max_pixels |-> max_pixels_default, image_types |-> image_types_default]

\* image_checker with the format test left out (a plausible slip).
image_checker_noformat(path, f, max_bytes, max_dim, max_pixels, image_types) ==
    LET locals == {"path", "max_bytes", "max_dim", "max_pixels",
                   "image_types", "img"}
    IN  IF path = NoPath THEN "False"
        ELSE IF ~f.decodable THEN "False"
        ELSE IF f.st_size > max_bytes THEN "False"
        ELSE IF (f.width * f.height) > max_pixels THEN "False"
        ELSE IF ~NameDefined("image", locals) THEN "NameError"
        ELSE IF f.width > max_dim \/ f.height > max_dim THEN "False"
        ELSE "True"

\* image_checker(path, ...): "True", "False", or the class of the exception
\* that leaves the function.  f is what Image.open and stat see at path.
image_checker(path, f, max_bytes, max_dim, max_pixels, image_types) ==
    LET locals == {"path", "max_bytes", "max_dim", "max_pixels",
                   "image_types", "img"}
    IN  IF path = NoPath THEN "False"                           \* line 50
        ELSE IF ~f.decodable THEN "False"                       \* lines 55-59
        ELSE IF f.format \notin image_types THEN "False"        \* line 63
        ELSE IF f.st_size > max_bytes THEN "False"              \* line 69
        ELSE IF (f.width * f.height) > max_pixels THEN "False"  \* line 76
        \* line 83 reads `image.width`: `image` is bound nowhere
        ELSE IF ~NameDefined("image", locals) THEN "NameError"
        ELSE IF f.width > max_dim \/ f.height > max_dim THEN "False"
        ELSE "True"                                             \* line 88

(***************************************************************************)
(* upload_to_cloudflare.  resp is the HTTP response the service would give *)
(* to the POST: [status_code, json].                                       *)
(***************************************************************************)
upload_to_cloudflare(image, cf_id, cf_token, resp) ==
    LET locals == {"image", "cf_id", "cf_token"}
    IN  \* line 106: the f-string reads `cfid`
        IF ~NameDefined("cfid", locals)
        THEN [exc |-> "NameError", ret |-> PyNone, posted |-> FALSE]
        \* line 107: `requests` is never imported
        ELSE IF ~NameDefined("requests", locals \cup {"url"})
        THEN [exc |-> "NameError", ret |-> PyNone, posted |-> FALSE]
        ELSE IF resp.status_code # 200                          \* line 114
        THEN [exc |-> "none", ret |-> PyNone, posted |-> TRUE]
        ELSE IF DictGet(resp.json, "success") # "str:true"      \* line 125
        THEN [exc |-> "none", ret |-> PyNone, posted |-> TRUE]
        ELSE [exc |-> "none", ret |-> resp.json, posted |-> TRUE]

(***************************************************************************)
(* The directory tree.  tree[k] describes node k: its kind ("dir", "file", *)
(* or "other" for what is neither), its parent (NoPath for the root) and,  *)
(* for a file, what Image.open and stat report.  Node 1 is the root and a  *)
(* node's parent has a smaller number, so that the children of a directory *)
(* taken in ascending order range over every ordered tree.                 *)
(***************************************************************************)
Attr(kind, decodable, format, st_size, width, height) ==
    [kind |-> kind, decodable |-> decodable, format |-> format,
     st_size |-> st_size, width |-> width, height |-> height]

DirNode == Attr("dir", FALSE, "", 0, 0, 0)

OtherNode == Attr("other", FALSE, "", 0, 0, 0)

\* Files around the default limits.
FileAtLimits ==
    Attr("file", TRUE, "JPEG", max_bytes_default, max_dim_default,
         max_pixels_default \div max_dim_default)

FileUndecodable == Attr("file", FALSE, "", 1, 0, 0)

FileWrongFormat == Attr("file", TRUE, "GIF", 1, 1, 1)

FileTooManyBytes == Attr("file", TRUE, "PNG", max_bytes_default + 1, 1, 1)

FileTooManyPixels ==
    Attr("file", TRUE, "PNG", 1, max_dim_default,
         (max_pixels_default \div max_dim_default) + 1)

FileTooWide == Attr("file", TRUE, "PNG", 1, max_dim_default + 1, 1)

NodeAttrs ==
    {DirNode, OtherNode, FileAtLimits, FileUndecodable, FileWrongFormat,
     FileTooManyBytes, FileTooManyPixels, FileTooWide}

Trees ==
    UNION { UNION { { [k \in 1..n |->
                         [parent |-> IF k = 1 THEN NoPath ELSE par[k],
                          attr |-> at[k]]] :
                      par \in { q \in [2..n -> 1..n] :
                                 \A k \in 2..n :
                                    q[k] < k /\ at[q[k]].kind = "dir" } } :
                    at \in [1..n -> NodeAttrs] } :
            n \in 1..MaxNodes }

Min(S) == CHOOSE x \in S : \A y \in S : x <= y

RECURSIVE Ascending(_)
Ascending(S) ==
    IF S = {} THEN <<>> ELSE <<Min(S)>> \o Ascending(S \ {Min(S)})

\* pobj.iterdir(): the children of directory d in enumeration order.
iterdir(t, d) == Ascending({k \in DOMAIN t : t[k].parent = d})

is_dir(t, p) == t[p].attr.kind = "dir"

is_file(t, p) == t[p].attr.kind = "file"

(***************************************************************************)
(* The HTTP responses the service may give.                                *)
(***************************************************************************)
JsonBody(success, id, uploaded, varients) ==
    [type |-> "dict", success |-> success, id |-> id,
     uploaded |-> uploaded, varients |-> varients]

StatusCodes == {200, 201, 403, 500}

JsonBodies ==
    { JsonBody(s, i, u, v) :
        s \in {"bool:True", "bool:False", "str:true", "absent"},
        i \in {"str:abc", "absent"},
        u \in {"str:2024-01-01", "absent"},
        v \in {"list:[]", "absent"} }

Responses == [status_code : StatusCodes, json : JsonBodies]

(***************************************************************************)
(* file_walker, lines 161-168: the branch taken for a path that is not a   *)
(* directory.  The outcome holds the entries added to file_log, the        *)
(* verdict of image_checker ("unchecked" when it was not called), whether  *)
(* upload_to_cloudflare was called and whether the POST was issued.        *)
(***************************************************************************)
WalkOutcome(e, log, v, called, posted) ==
    [exc |-> e, file_log |-> log, verdict |-> v, called |-> called,
     posted |-> posted]

\* The branch with the image check dropped from its condition.
file_walker_elif_nocheck(t, pobj, resp) ==
    LET chk == IF is_file(t, pobj)
               THEN image_checker(pobj, t[pobj].attr, max_bytes_default,
                                  max_dim_default, max_pixels_default,
                                  image_types_default)
               ELSE "unchecked"
        up == upload_to_cloudflare(pobj, "cf_id", "cf_token", resp)
    IN  IF ~is_file(t, pobj)
        THEN WalkOutcome("none", <<>>, chk, FALSE, FALSE)
        ELSE IF chk = "NameError"
        THEN WalkOutcome("NameError", <<>>, chk, FALSE, FALSE)
        ELSE IF up.exc # "none"
        THEN WalkOutcome(up.exc, <<>>, chk, TRUE, up.posted)
        ELSE WalkOutcome("none", << <<pobj, up.ret>> >>, chk, TRUE, up.posted)

file_walker_elif(t, pobj, resp) ==
    LET chk == IF is_file(t, pobj)
               THEN image_checker(pobj, t[pobj].attr, max_bytes_default,
                                  max_dim_default, max_pixels_default,
                                  image_types_default)
               ELSE "unchecked"
        up == upload_to_cloudflare(pobj, "cf_id", "cf_token", resp)
    IN  IF ~is_file(t, pobj)                                    \* line 165
        THEN WalkOutcome("none", <<>>, chk, FALSE, FALSE)
        ELSE IF chk = "NameError"
        THEN WalkOutcome("NameError", <<>>, chk, FALSE, FALSE)
        ELSE IF chk = "False"
        THEN WalkOutcome("none", <<>>, chk, FALSE, FALSE)
        ELSE IF up.exc # "none"                                 \* line 166
        THEN WalkOutcome(up.exc, <<>>, chk, TRUE, up.posted)
        ELSE WalkOutcome("none", << <<pobj, up.ret>> >>,        \* line 168
                         chk, TRUE, up.posted)

(***************************************************************************)
(* uploader, lines 207-217: the report block.                              *)
(***************************************************************************)
Header == <<"filename", "id", "upload", "varients">>

CsvField(v) == IF v = "None" THEN Blank ELSE v

RECURSIVE write_rows(_, _)
write_rows(log, written) ==
    IF log = <<>> THEN [exc |-> "none", rows |-> written]
    ELSE LET entry == Head(log)
         IN  IF entry[2] = PyNone             \* None has no attribute get
             THEN [exc |-> "AttributeError", rows |-> written]
             ELSE write_rows(Tail(log),
                     Append(written,
                        [filename |-> <<"resolve", entry[1]>>,
                         id |-> CsvField(DictGet(entry[2], "id")),
                         upload |-> CsvField(DictGet(entry[2], "uploaded")),
                         varients |-> CsvField(DictGet(entry[2], "varients"))]))

(***************************************************************************)
(* The run of the `uploader` command.  stack holds the frames of           *)
(* file_walker that are iterating over a directory, innermost last: the    *)
(* directory, the children still to enumerate and the frame's file_log.    *)
(* The bottom frame stands for the call made by uploader (lines 201-204).  *)
(***************************************************************************)
Frame(pobj, items, log) == [pobj |-> pobj, items |-> items, file_log |-> log]

Top == stack[Len(stack)]

SetTop(fr) == [stack EXCEPT ![Len(stack)] = fr]

Init ==
    /\ tree \in Trees
    /\ report \in BOOLEAN
    /\ pc = "walk"
    /\ exc = "none"
    /\ stack = << Frame(NoPath, <<1>>, <<>>) >>
    /\ file_log = <<>>
    /\ verdict = [k \in DOMAIN tree |-> "unchecked"]
    /\ visited = <<>>
    /\ calls = <<>>
    /\ posts = <<>>
    /\ rows = <<>>
    /\ arg = PyNone
    /\ ret = PyNone

\* lines 157-159: the next path is a directory; file_walker is called on it
\* and starts to iterate over its children.
file_walker_dir ==
    /\ pc = "walk"
    /\ Top.items # <<>>
    /\ LET item == Head(Top.items)
       IN  /\ is_dir(tree, item)
           /\ visited' = Append(visited, item)
           /\ stack' = Append(SetTop(Frame(Top.pobj, Tail(Top.items),
                                           Top.file_log)),
                              Frame(item, iterdir(tree, item), <<>>))
    /\ UNCHANGED <<pc, exc, tree, file_log, verdict, calls, posts, report,
                   rows, arg, ret>>

\* lines 152, 165-171 and the caller's `file_log +=`: file_walker is called
\* on a path that is not a directory, and returns or raises.
file_walker_file ==
    /\ pc = "walk"
    /\ Top.items # <<>>
    /\ LET item == Head(Top.items)
       IN  /\ ~is_dir(tree, item)
           /\ \E resp \in Responses :
                LET r == file_walker_elif(tree, item, resp)
                IN  /\ visited' = Append(visited, item)
                    /\ verdict' = [verdict EXCEPT ![item] = r.verdict]
                    /\ calls' = IF r.called THEN Append(calls, item)
                                ELSE calls
                    /\ posts' = IF r.posted THEN Append(posts, item)
                                ELSE posts
                    /\ IF r.exc # "none"
                       THEN /\ pc' = "raised"
                            /\ exc' = r.exc
                            /\ stack' = <<>>
                       ELSE /\ pc' = pc
                            /\ exc' = exc
                            /\ stack' = SetTop(Frame(Top.pobj,
                                           Tail(Top.items),
                                           Top.file_log \o r.file_log))
    /\ UNCHANGED <<tree, file_log, report, rows, arg, ret>>

\* line 171 and the caller's `file_log +=` (line 159), or the assignment of
\* lines 201-204 when the outermost call returns.
file_walker_return ==
    /\ pc = "walk"
    /\ Top.items = <<>>
    /\ IF Len(stack) > 1
       THEN LET caller == stack[Len(stack) - 1]
            IN  /\ stack' = [SubSeq(stack, 1, Len(stack) - 1)
                               EXCEPT ![Len(stack) - 1] =
                                 Frame(caller.pobj, caller.items,
                                       caller.file_log \o Top.file_log)]
                /\ UNCHANGED <<pc, file_log>>
       ELSE /\ stack' = <<>>
            /\ file_log' = Top.file_log
            /\ pc' = "report"
    /\ UNCHANGED <<exc, tree, verdict, visited, calls, posts, report, rows,
                   arg, ret>>

\* lines 207-217.
uploader_report ==
    /\ pc = "report"
    /\ IF report
       THEN LET w == write_rows(file_log, <<Header>>)
            IN  /\ rows' = w.rows
                /\ exc' = w.exc
                /\ pc' = IF w.exc = "none" THEN "done" ELSE "raised"
       ELSE /\ pc' = "done"
            /\ UNCHANGED <<rows, exc>>
    /\ UNCHANGED <<tree, stack, file_log, verdict, visited, calls, posts,
                   report, arg, ret>>

Next ==
    \/ file_walker_dir
    \/ file_walker_file
    \/ file_walker_return
    \/ uploader_report

Spec == Init /\ [][Next]_vars

(***************************************************************************)
(* image_checker on its own: one call on every input of a bounded set,     *)
(* under the default limits and under a small set of limits given through  *)
(* the keyword parameters.                                                 *)
(***************************************************************************)
SmallLimits ==
    [max_bytes |-> 4, max_dim |-> 4, max_pixels |-> 8, image_types |-> {"PNG"}]

CheckerLimits == {DefaultLimits, SmallLimits}

Formats == {"PNG", "JPEG", "GIF"}

Sizes(L) == {L.max_bytes - 1, L.max_bytes, L.max_bytes + 1}

Dims(L) ==
    {1, 2, 3, L.max_pixels \div L.max_dim, (L.max_pixels \div L.max_dim) + 1,
     L.max_dim, L.max_dim + 1}

CheckerArgs ==
    UNION { [path : {NoPath, 1},
             f : { Attr("file", d, fm, sz, w, h) :
                     d \in BOOLEAN, fm \in Formats, sz \in Sizes(L),
                     w \in Dims(L), h \in Dims(L) },
             limits : {L}] : L \in CheckerLimits }

Idle ==
    /\ exc = "none"
    /\ tree = <<>>
    /\ stack = <<>>
    /\ file_log = <<>>
    /\ verdict = <<>>
    /\ visited = <<>>
    /\ calls = <<>>
    /\ posts = <<>>
    /\ report = FALSE
    /\ rows = <<>>
    /\ ret = PyNone

InitChecker ==
    /\ pc = "call"
    /\ arg \in CheckerArgs
    /\ Idle

call_image_checker ==
    /\ pc = "call"
    /\ LET r == image_checker(arg.path, arg.f, arg.limits.max_bytes,
                              arg.limits.max_dim, arg.limits.max_pixels,
                              arg.limits.image_types)
       IN  /\ ret' = r
           /\ exc' = IF r = "NameError" THEN r ELSE "none"
           /\ pc' = IF r = "NameError" THEN "raised" ELSE "done"
    /\ UNCHANGED <<tree, stack, file_log, verdict, visited, calls, posts,
                   report, rows, arg>>

NextChecker == call_image_checker

SpecChecker == InitChecker /\ [][NextChecker]_vars

(***************************************************************************)
(* upload_to_cloudflare on its own: one call for every response of the     *)
(* service.                                                                *)
(***************************************************************************)
UploadArgs == [image : 1..2, resp : Responses]

InitUpload ==
    /\ pc = "call"
    /\ arg \in UploadArgs
    /\ Idle

call_upload_to_cloudflare ==
    /\ pc = "call"
    /\ LET r == upload_to_cloudflare(arg.image, "cf_id", "cf_token", arg.resp)
       IN  /\ ret' = r.ret
           /\ exc' = r.exc
           /\ pc' = IF r.exc = "none" THEN "done" ELSE "raised"
           /\ calls' = Append(calls, arg.image)
           /\ posts' = IF r.posted THEN Append(posts, arg.image) ELSE posts
    /\ UNCHANGED <<tree, stack, file_log, verdict, visited, report, rows, arg>>

NextUpload == call_upload_to_cloudflare

SpecUpload == InitUpload /\ [][NextUpload]_vars

(***************************************************************************)
(* The report block on its own: applied to every file_log of the type      *)
(* file_walker declares, List[Tuple[path, Optional[dict]]], up to MaxLog   *)
(* entries.                                                                *)
(***************************************************************************)
UploadResults ==
    {PyNone} \cup {b \in JsonBodies : b.success \in {"bool:True", "str:true"}}

RECURSIVE SeqsUpTo(_, _)
SeqsUpTo(S, n) ==
    IF n = 0 THEN {<<>>}
    ELSE SeqsUpTo(S, n - 1)
           \cup { Append(q, x) : q \in SeqsUpTo(S, n - 1), x \in S }

FileLogs == SeqsUpTo((1..2) \X UploadResults, MaxLog)

InitReport ==
    /\ pc = "report"
    /\ report \in BOOLEAN
    /\ file_log \in FileLogs
    /\ exc = "none"
    /\ tree = <<>>
    /\ stack = <<>>
    /\ verdict = <<>>
    /\ visited = <<>>
    /\ calls = <<>>
    /\ posts = <<>>
    /\ rows = <<>>
    /\ arg = PyNone
    /\ ret = PyNone

NextReport == uploader_report

SpecReport == InitReport /\ [][NextReport]_vars

(***************************************************************************)
(* Properties.                                                             *)
(***************************************************************************)

\* The Validator's acceptance condition as section 4.1 states it.
Conforms(f, L) ==
    /\ f.kind = "file"
    /\ f.decodable
    /\ f.format \in L.image_types
    /\ f.st_size <= L.max_bytes
    /\ f.width * f.height <= L.max_pixels
    /\ f.width <= L.max_dim
    /\ f.height <= L.max_dim

\* Exactly one limit is exceeded, by exactly one unit.
ExceedsOneByOne(f, L) ==
    /\ f.kind = "file"
    /\ f.decodable
    /\ f.format \in L.image_types
    /\ \/ /\ f.st_size = L.max_bytes + 1
          /\ f.width * f.height <= L.max_pixels
          /\ f.width <= L.max_dim
          /\ f.height <= L.max_dim
       \/ /\ f.st_size <= L.max_bytes
          /\ f.width * f.height = L.max_pixels + 1
          /\ f.width <= L.max_dim
          /\ f.height <= L.max_dim
       \/ /\ f.st_size <= L.max_bytes
          /\ f.width * f.height <= L.max_pixels
          /\ f.width = L.max_dim + 1
          /\ f.height <= L.max_dim
       \/ /\ f.st_size <= L.max_bytes
          /\ f.width * f.height <= L.max_pixels
          /\ f.width <= L.max_dim
          /\ f.height = L.max_dim + 1

\* The files of the tree that meet the default limits.
ConformingFiles ==
    {k \in DOMAIN tree : Conforms(tree[k].attr, DefaultLimits)}

\* The walk ended by an exception (the report block raises AttributeError
\* only, the walk NameError only).
WalkRaised == pc = "raised" /\ exc = "NameError"

LogPaths == [i \in 1..Len(file_log) |-> file_log[i][1]]

Occurrences(q, x) == Cardinality({i \in 1..Len(q) : q[i] = x})

RECURSIVE DepthFirst(_, _)
\* The nodes below the paths `items`, in depth-first order.
DepthFirst(t, items) ==
    IF items = <<>> THEN <<>>
    ELSE <<Head(items)>> \o DepthFirst(t, iterdir(t, Head(items)))
                         \o DepthFirst(t, Tail(items))

Position(q, x) == CHOOSE i \in 1..Len(q) : q[i] = x

\* C1: when the walk is over it has returned a log that holds exactly one
\* entry for each file that passes the Validator and no other entry.
C1_LogHoldsEveryAcceptedFileOnce ==
    pc # "walk" =>
        /\ ~WalkRaised
        /\ Len(file_log) = Cardinality(ConformingFiles)
        /\ \A k \in DOMAIN tree :
              Occurrences(LogPaths, k) = IF k \in ConformingFiles THEN 1 ELSE 0

\* C2: upload returns None, without raising, when the status is not 200 or
\* the body's success indicator is false or missing.
C2_UploadFailureReturnsNone ==
    (/\ pc # "call"
     /\ \/ arg.resp.status_code # 200
        \/ arg.resp.json.success \in {"bool:False", "absent"})
    => (pc = "done" /\ exc = "none" /\ ret = PyNone)

\* C3: upload returns the decoded body when the status is 200 and the
\* body's success indicator is the boolean true.
C3_UploadSuccessReturnsBody ==
    (/\ pc # "call"
     /\ arg.resp.status_code = 200
     /\ arg.resp.json.success = "bool:True")
    => (pc = "done" /\ exc = "none" /\ ret = arg.resp.json)

\* C4: the checker returns true for a decodable image of an accepted format
\* at or under every limit.
C4_WithinLimitsAccepted ==
    (pc # "call" /\ arg.path # NoPath /\ Conforms(arg.f, arg.limits))
    => (pc = "done" /\ ret = "True")

\* C5: the checker returns false, and does not raise, for an image that
\* exceeds exactly one limit by one unit.
C5_OneOverLimitRejected ==
    (pc # "call" /\ arg.path # NoPath /\ ExceedsOneByOne(arg.f, arg.limits))
    => (pc = "done" /\ ret = "False")

\* C6: the checker returns false for every decodable file whose format is
\* not in the accepted set, whatever its size, pixel count and dimensions.
C6_UnacceptedFormatRejected ==
    (/\ pc # "call"
     /\ arg.path # NoPath
     /\ arg.f.decodable
     /\ arg.f.format \notin arg.limits.image_types)
    => (pc = "done" /\ ret = "False")

\* A file of an unaccepted format that meets every limit has been rejected.
C6_Witness ==
    /\ pc = "done"
    /\ arg.path # NoPath
    /\ arg.f.decodable
    /\ arg.f.format = "GIF"
    /\ arg.limits = DefaultLimits
    /\ arg.f.st_size <= arg.limits.max_bytes
    /\ arg.f.width * arg.f.height <= arg.limits.max_pixels
    /\ arg.f.width <= arg.limits.max_dim
    /\ arg.f.height <= arg.limits.max_dim
    /\ ret = "False"

\* C7: with --report and a log that holds an entry whose result is None,
\* writing the report completes, with one row per entry and blank id,
\* upload and varients fields in the rows of the None entries.
C7_ReportRowForFailedUpload ==
    (/\ pc # "report"
     /\ report
     /\ \E i \in 1..Len(file_log) : file_log[i][2] = PyNone)
    => /\ pc = "done"
       /\ Len(rows) = Len(file_log) + 1
       /\ \A i \in 1..Len(file_log) :
            /\ rows[i + 1].filename = <<"resolve", file_log[i][1]>>
            /\ file_log[i][2] = PyNone =>
                 /\ rows[i + 1].id = Blank
                 /\ rows[i + 1].upload = Blank
                 /\ rows[i + 1].varients = Blank

\* C8: no file's outcome ends the run: the walk visits every node of the
\* tree and returns.
C8_WalkVisitsEverythingAndReturns ==
    pc # "walk" =>
        /\ ~WalkRaised
        /\ {visited[i] : i \in 1..Len(visited)} = DOMAIN tree

\* C9: the returned log lists the accepted files in depth-first order: of
\* two accepted files, the one visited first has the earlier entry.
C9_LogInDepthFirstOrder ==
    pc # "walk" =>
        \A f, g \in ConformingFiles :
            Position(DepthFirst(tree, <<1>>), f)
              < Position(DepthFirst(tree, <<1>>), g)
            => \E i, j \in 1..Len(file_log) :
                  i < j /\ file_log[i][1] = f /\ file_log[j][1] = g

\* C10: upload is called, and a request issued, only for a regular file the
\* checker has returned true for, and at most once per file.
C10_UploadOnlyForAcceptedFileOnce ==
    /\ \A i \in 1..Len(calls) :
          /\ is_file(tree, calls[i])
          /\ verdict[calls[i]] = "True"
          /\ Occurrences(calls, calls[i]) = 1
    /\ \A i \in 1..Len(posts) :
          /\ Occurrences(calls, posts[i]) = 1
          /\ Occurrences(posts, posts[i]) = 1

\* The checker has rejected a file, the walk has gone on to a later path
\* and has returned, and no upload was tried for the rejected file.
C10_Witness ==
    /\ pc = "done"
    /\ \E i \in 1..Len(visited) :
          /\ i < Len(visited)
          /\ is_file(tree, visited[i])
          /\ verdict[visited[i]] = "False"
          /\ Occurrences(calls, visited[i]) = 0
          /\ Occurrences(posts, visited[i]) = 0

====
